---- MODULE Spec2Model ----
(***************************************************************************)
(* Country detail page of countries-react25k: the Redux countries slice,   *)
(* the list page that builds slugs and requests the bulk directory load,   *)
(* and the CountryPage component that resolves the slug against the cached *)
(* directory and fetches the weather of the selected record's capital.     *)
(*                                                                         *)
(* Strings that the code transforms (names, slugs) are sequences of        *)
(* one-character strings over the alphabet Chars; capital names and        *)
(* messages are only compared, and are plain strings.                      *)
(***************************************************************************)
EXTENDS Integers, Sequences, FiniteSets, TLC

VARIABLES
    guideReducers,   \* TRUE: the slice of the guide (pending/fulfilled/rejected
                     \* reducers), FALSE: the slice of the repository (fulfilled only)
    view,            \* the page mounted: "none", "list" or "detail"
    slug,            \* useParams().slug of the detail page (<<>> when not mounted)
    countries,       \* state.countries.countries
    countriesGen,    \* identity of the countries array: number of fulfilled loads
    selectedCountry, \* state.countries.selectedCountry
    loading,         \* state.countries.loading
    error,           \* state.countries.error
    loadsInFlight,   \* fetchCountries thunks dispatched and not yet settled
    loadRequests,    \* fetchCountries thunks dispatched so far in the session
    weatherData,     \* useState of CountryPage
    weatherLoading,  \* useState of CountryPage
    weatherError,    \* useState of CountryPage
    weatherInFlight, \* fetchWeatherData calls of the mounted page awaiting their
                     \* response: for each capital, how many
    enteredAs,       \* history: presentation of the mounted detail page right
                     \* after its mount ("" when it is not mounted)
    leftFrom         \* history: presentation of the detail page when it was last
                     \* left ("" when it is mounted or was never left)

vars == <<guideReducers, view, slug, countries, countriesGen, selectedCountry,
          loading, error, loadsInFlight, loadRequests,
          weatherData, weatherLoading, weatherError, weatherInFlight,
          enteredAs, leftFrom>>

\* Bounds of the model: directory loads requested in a session, and weather
\* requests outstanding at once.
MaxLoads == 2
MaxInFlight == 3

\* Bound of the model: length of the path segments a user types.
MaxSlugLen == 2

\* JavaScript null, for object- and message-valued state.
null == [null |-> TRUE]

-----------------------------------------------------------------------------
(* Strings *)

Chars == {"a", "b", "A", "B", "d", "D", " ", "-", "%", "0", "2", "5"}

\* String.prototype.toLowerCase, one character.
LowerChar(c) ==
    CASE c = "A" -> "a"
      [] c = "B" -> "b"
      [] c = "D" -> "d"
      [] OTHER -> c

ToLowerCase(s) == [i \in DOMAIN s |-> LowerChar(s[i])]

\* /\s/ of the regular expression in handleCountryClick.
IsSpace(c) == c = " "

\* s.replace(/\s+/g, "-"): every maximal run of whitespace becomes one "-".
RECURSIVE ReplaceSpaceRuns(_)
ReplaceSpaceRuns(s) ==
    IF s = <<>> THEN <<>>
    ELSE IF IsSpace(Head(s))
         THEN IF Len(s) > 1 /\ IsSpace(s[2])
              THEN ReplaceSpaceRuns(Tail(s))
              ELSE <<"-">> \o ReplaceSpaceRuns(Tail(s))
         ELSE <<Head(s)>> \o ReplaceSpaceRuns(Tail(s))

\* s.replace(/-/g, " ")
ReplaceHyphens(s) == [i \in DOMAIN s |-> IF s[i] = "-" THEN " " ELSE s[i]]

\* encodeURIComponent, one character: unreserved characters are kept, the
\* others become their percent-encoded UTF-8 bytes.
EncodeChar(c) ==
    CASE c = " " -> <<"%", "2", "0">>
      [] c = "%" -> <<"%", "2", "5">>
      [] OTHER -> <<c>>

RECURSIVE EncodeURIComponent(_)
EncodeURIComponent(s) ==
    IF s = <<>> THEN <<>>
    ELSE EncodeChar(Head(s)) \o EncodeURIComponent(Tail(s))

\* The escape sequences of the alphabet that decode to a character of it.
IsEscape(h, l) == h = "2" /\ l \in {"0", "5", "d", "D"}

EscapeChar(h, l) ==
    CASE l = "0" -> " "
      [] l = "5" -> "%"
      [] OTHER -> "-"

\* decodeURIComponent accepts s: every "%" starts an escape sequence.
RECURSIVE WellFormed(_)
WellFormed(s) ==
    IF s = <<>> THEN TRUE
    ELSE IF Head(s) = "%"
         THEN /\ Len(s) >= 3
              /\ IsEscape(s[2], s[3])
              /\ WellFormed(SubSeq(s, 4, Len(s)))
         ELSE WellFormed(Tail(s))

\* decodeURIComponent on a well-formed string.
RECURSIVE DecodeURIComponent(_)
DecodeURIComponent(s) ==
    IF s = <<>> THEN <<>>
    ELSE IF Head(s) = "%" /\ Len(s) >= 3
         THEN <<EscapeChar(s[2], s[3])>> \o DecodeURIComponent(SubSeq(s, 4, Len(s)))
         ELSE <<Head(s)>> \o DecodeURIComponent(Tail(s))

\* handleCountryClick: the path segment pushed for a record's common name.
ClickSlug(countryName) ==
    EncodeURIComponent(ReplaceSpaceRuns(ToLowerCase(countryName)))

\* CountryPage: const countryName = decodeURIComponent(slug.replace(/-/g, " "))
CountryName(s) == DecodeURIComponent(ReplaceHyphens(s))

-----------------------------------------------------------------------------
(* The directory API and the URLs a user can open *)

\* Country records of the directory API: name.common, name.official, capital.
RAb      == [common |-> <<"A", "b">>, official |-> <<"A", "b", "a">>,
             capital |-> <<"X">>]
RASpaceB == [common |-> <<"A", " ", "b">>, official |-> <<"A", " ", "b", " ", "a">>,
             capital |-> <<"Y", "Z">>]
RHyphen  == [common |-> <<"B", "-", "a">>, official |-> <<"B", "-", "a", "b">>,
             capital |-> <<>>]
RPercent == [common |-> <<"a", "%">>, official |-> <<"a", "%", "b">>,
             capital |-> <<"">>]
RBa      == [common |-> <<"B", "a">>, official |-> <<"A", " ", "b">>,
             capital |-> <<"X">>]

\* The payloads the directory API may answer with.
Datasets == { <<RAb, RASpaceB, RHyphen, RPercent>>, <<RBa, RASpaceB, RAb>> }

\* Path segments a user can reach the detail page with, besides clicking a card.
Slugs == { <<"a", "b">>, <<"a", "-", "b">>, <<"A", "-", "b">>,
           <<"b", "%", "2", "D", "a">>, <<"b", "a">> }

\* Every path segment of at most MaxSlugLen characters that the router
\* accepts, and the segments above.
UrlSlugs ==
    Slugs \cup {s \in UNION {[1..n -> Chars] : n \in 1..MaxSlugLen} : WellFormed(s)}

\* The non-empty primary capitals of the directory.
Capitals == {"X", "Y"}

\* Messages of a rejected directory load and of a failed weather fetch.
LoadErrorMessage == "Network Error"
WeatherErrorMessages == {"Weather data not available", "Failed to fetch"}

-----------------------------------------------------------------------------
(* countriesSlice *)

Store == [countries |-> countries, countriesGen |-> countriesGen,
          selectedCountry |-> selectedCountry, loading |-> loading,
          error |-> error]

initialState == [countries |-> <<>>, countriesGen |-> 0,
                 selectedCountry |-> null, loading |-> FALSE, error |-> null]

\* The array a fulfilled load stores: fresh objects, identified by ref.
Payload(data, gen) ==
    [i \in DOMAIN data |->
        [common |-> data[i].common, official |-> data[i].official,
         capital |-> data[i].capital, ref |-> <<gen, i>>]]

setSelectedCountry(S, payload) ==
    [S EXCEPT !.selectedCountry = payload, !.error = null]

\* Mutant: the reducer also resets the loading flag.
clearSelectedCountryAndLoading(S) ==
    [S EXCEPT !.selectedCountry = null, !.loading = FALSE, !.error = null]

\* Mutant: the reducer empties the directory instead of the selection.
clearCountries(S) ==
    [S EXCEPT !.countries = <<>>, !.error = null]

clearSelectedCountry(S) ==
    [S EXCEPT !.selectedCountry = null, !.error = null]

\* extraReducers. The slice of the repository handles fetchCountries.fulfilled
\* only; the slice of the guide also handles pending and rejected.
fetchCountriesPending(S) ==
    IF guideReducers THEN [S EXCEPT !.loading = TRUE, !.error = null] ELSE S

fetchCountriesFulfilled(S, data) ==
    LET T == [S EXCEPT !.countries = Payload(data, S.countriesGen + 1),
                       !.countriesGen = S.countriesGen + 1]
    IN  IF guideReducers THEN [T EXCEPT !.loading = FALSE, !.error = null] ELSE T

fetchCountriesRejected(S, message) ==
    IF guideReducers
    THEN [S EXCEPT !.loading = FALSE, !.error = [message |-> message]]
    ELSE S

-----------------------------------------------------------------------------
(* CountryPage *)

\* Mutant: the last matching record instead of the first.
FindCountryLastMatch(cs, countryName) ==
    LET hits == {i \in DOMAIN cs :
                    \/ ToLowerCase(cs[i].common) = ToLowerCase(countryName)
                    \/ ToLowerCase(cs[i].official) = ToLowerCase(countryName)}
    IN  IF hits = {} THEN null
        ELSE cs[CHOOSE i \in hits : \A j \in hits : i >= j]

\* Mutant: the comparison lower-cases the record's names only.
FindCountryNameNotLowered(cs, countryName) ==
    LET hits == {i \in DOMAIN cs :
                    \/ ToLowerCase(cs[i].common) = countryName
                    \/ ToLowerCase(cs[i].official) = countryName}
    IN  IF hits = {} THEN null
        ELSE cs[CHOOSE i \in hits : \A j \in hits : i <= j]

\* countries.find(...): the first record whose common or official name,
\* lower-cased, equals the lower-cased countryName; null when there is none.
FindCountry(cs, countryName) ==
    LET hits == {i \in DOMAIN cs :
                    \/ ToLowerCase(cs[i].common) = ToLowerCase(countryName)
                    \/ ToLowerCase(cs[i].official) = ToLowerCase(countryName)}
    IN  IF hits = {} THEN null
        ELSE cs[CHOOSE i \in hits : \A j \in hits : i <= j]

\* decodeURIComponent throws URIError on a malformed escape sequence.
URIError == [URIError |-> TRUE]

\* Lines 286-292 applied to any string s: the decoding, then the lookup.
ResolveSlug(cs, s) ==
    IF WellFormed(ReplaceHyphens(s))
    THEN FindCountry(cs, CountryName(s))
    ELSE URIError

\* Body of the first effect: resolve the slug against the directory.
ResolveEffect(S, s) ==
    IF s # <<>> /\ Len(S.countries) > 0
    THEN LET foundCountry == FindCountry(S.countries, CountryName(s))
         IN  IF foundCountry # null
             THEN setSelectedCountry(S, foundCountry)
             ELSE clearSelectedCountry(S)
    ELSE S

\* Mutant: the first effect returns no cleanup.
ResolveCleanupMissing(S) == S

\* Cleanup of the first effect.
ResolveCleanup(S) == clearSelectedCountry(S)

\* Mutant: dependency array [slug, dispatch].
ResolveDepsWithoutCountries(oldSlug, newSlug, oldGen, newGen) ==
    oldSlug # newSlug

\* Mutant: dependency array [countries, dispatch].
ResolveDepsWithoutSlug(oldSlug, newSlug, oldGen, newGen) ==
    oldGen # newGen

\* Dependency array of the first effect: [slug, countries, dispatch].
ResolveDepsChanged(oldSlug, newSlug, oldGen, newGen) ==
    oldSlug # newSlug \/ oldGen # newGen

\* The component's local state and the requests it has issued.
Weather == [data |-> weatherData, loading |-> weatherLoading,
            error |-> weatherError, inFlight |-> weatherInFlight]

\* useState(null), useState(false), useState(null) of a new instance.
InitialWeather == [data |-> null, loading |-> FALSE, error |-> null,
                   inFlight |-> [c \in Capitals |-> 0]]

\* selectedCountry?.capital?.[0]
PrimaryCapital(sel) ==
    IF sel # null /\ Len(sel.capital) > 0 THEN sel.capital[1] ELSE ""

\* fetchWeatherData up to its await: the request is issued.
fetchWeatherData(W, capital) ==
    IF capital = "" THEN W
    ELSE [W EXCEPT !.loading = TRUE, !.error = null,
                   !.inFlight[capital] = @ + 1]

\* Mutant: the effect runs for every selected record and asks for a default
\* city when the record has no capital.
WeatherEffectDefaultCity(W, sel) ==
    IF sel = null THEN W
    ELSE fetchWeatherData(W, IF PrimaryCapital(sel) # "" THEN PrimaryCapital(sel) ELSE "X")

\* Body of the second effect.
WeatherEffect(W, sel) ==
    IF PrimaryCapital(sel) # "" THEN fetchWeatherData(W, PrimaryCapital(sel)) ELSE W

\* Dependency array of the second effect: [selectedCountry], compared by identity.
WeatherDepsChanged(before, after) == before # after

\* Mutant: the render does not test the length of the directory.
PresentationWithoutEmptyCheck ==
    IF loading THEN "Loading"
    ELSE IF error # null THEN "Error"
    ELSE IF selectedCountry = null THEN "NotFound"
    ELSE "Found"

\* Presentation chosen by the render of CountryPage.
Presentation ==
    IF loading \/ Len(countries) = 0 THEN "Loading"
    ELSE IF error # null THEN "Error"
    ELSE IF selectedCountry = null THEN "NotFound"
    ELSE "Found"

\* Mount of CountryPage with slug s: both effects run with the rendered
\* selection, then the second effect runs again if the first one changed it.
MountCountryPage(S, s) ==
    LET S1 == ResolveEffect(S, s)
        W1 == WeatherEffect(InitialWeather, S.selectedCountry)
        W2 == IF WeatherDepsChanged(S.selectedCountry, S1.selectedCountry)
              THEN WeatherEffect(W1, S1.selectedCountry)
              ELSE W1
    IN  [store |-> S1, weather |-> W2]

\* Unmount of CountryPage: the cleanup runs; the local state is gone, and the
\* responses still awaited set no state when they arrive.
UnmountCountryPage(S) ==
    [store |-> ResolveCleanup(S), weather |-> InitialWeather]

\* Re-render of the mounted CountryPage after its slug or the store changed
\* from (oldSlug, old) to (newSlug, S): cleanup and body of the first effect
\* if its dependencies changed, then the second effect if the selection did.
UpdateCountryPage(old, S, W, oldSlug, newSlug) ==
    LET S1 == IF ResolveDepsChanged(oldSlug, newSlug, old.countriesGen, S.countriesGen)
              THEN ResolveEffect(ResolveCleanup(S), newSlug)
              ELSE S
        W1 == IF WeatherDepsChanged(old.selectedCountry, S1.selectedCountry)
              THEN WeatherEffect(W, S1.selectedCountry)
              ELSE W
    IN  [store |-> S1, weather |-> W1]

\* Mount of the Countries list page: useEffect(() => dispatch(fetchCountries())).
MountCountries(S) == fetchCountriesPending(S)

-----------------------------------------------------------------------------
(* State machine *)

SetStore(S) ==
    /\ countries' = S.countries
    /\ countriesGen' = S.countriesGen
    /\ selectedCountry' = S.selectedCountry
    /\ loading' = S.loading
    /\ error' = S.error

RECURSIVE SumOver(_, _)
SumOver(f, S) ==
    IF S = {} THEN 0
    ELSE LET c == CHOOSE x \in S : TRUE IN f[c] + SumOver(f, S \ {c})

\* Number of weather requests awaiting their response.
InFlightCount(f) == SumOver(f, DOMAIN f)

\* The model keeps at most MaxInFlight weather requests outstanding.
SetWeather(W) ==
    /\ InFlightCount(W.inFlight) <= MaxInFlight
    /\ weatherData' = W.data
    /\ weatherLoading' = W.loading
    /\ weatherError' = W.error
    /\ weatherInFlight' = W.inFlight

Init ==
    /\ guideReducers \in BOOLEAN
    /\ view = "none"
    /\ slug = <<>>
    /\ countries = initialState.countries
    /\ countriesGen = initialState.countriesGen
    /\ selectedCountry = initialState.selectedCountry
    /\ loading = initialState.loading
    /\ error = initialState.error
    /\ loadsInFlight = 0
    /\ loadRequests = 0
    /\ weatherData = null
    /\ weatherLoading = FALSE
    /\ weatherError = null
    /\ weatherInFlight = InitialWeather.inFlight
    /\ enteredAs = ""
    /\ leftFrom = ""

\* The user opens /countries from another page.
OpenCountries ==
    /\ view = "none"
    /\ loadRequests < MaxLoads
    /\ view' = "list"
    /\ SetStore(MountCountries(Store))
    /\ loadsInFlight' = loadsInFlight + 1
    /\ loadRequests' = loadRequests + 1
    /\ UNCHANGED <<guideReducers, slug, weatherData, weatherLoading, weatherError,
                   weatherInFlight, enteredAs, leftFrom>>

\* The user leaves /countries for another page.
LeaveCountries ==
    /\ view = "list"
    /\ view' = "none"
    /\ UNCHANGED <<guideReducers, slug, countries, countriesGen, selectedCountry,
                   loading, error, loadsInFlight, loadRequests,
                   weatherData, weatherLoading, weatherError,
                   weatherInFlight, enteredAs, leftFrom>>

\* handleCountryClick on the card of countries[i].
HandleCountryClick(i) ==
    /\ view = "list"
    /\ i \in DOMAIN countries
    /\ LET s == ClickSlug(countries[i].common)
           m == MountCountryPage(Store, s)
       IN  /\ view' = "detail"
           /\ slug' = s
           /\ SetStore(m.store)
           /\ SetWeather(m.weather)
    /\ enteredAs' = Presentation'
    /\ leftFrom' = ""
    /\ UNCHANGED <<guideReducers, loadsInFlight, loadRequests>>

\* The user enters /countries/s from another page (history, link).
OpenCountry(s) ==
    /\ view = "none"
    /\ LET m == MountCountryPage(Store, s)
       IN  /\ view' = "detail"
           /\ slug' = s
           /\ SetStore(m.store)
           /\ SetWeather(m.weather)
    /\ enteredAs' = Presentation'
    /\ leftFrom' = ""
    /\ UNCHANGED <<guideReducers, loadsInFlight, loadRequests>>

\* The route parameter of the mounted CountryPage changes to s.
ChangeSlug(s) ==
    /\ view = "detail"
    /\ s # slug
    /\ LET u == UpdateCountryPage(Store, Store, Weather, slug, s)
       IN  /\ slug' = s
           /\ SetStore(u.store)
           /\ SetWeather(u.weather)
    /\ UNCHANGED <<guideReducers, view, loadsInFlight, loadRequests, enteredAs, leftFrom>>

\* handleBack: router.push("/countries") from the detail page.
HandleBack ==
    /\ view = "detail"
    /\ loadRequests < MaxLoads
    /\ LET u == UnmountCountryPage(Store)
       IN  /\ view' = "list"
           /\ slug' = <<>>
           /\ SetStore(MountCountries(u.store))
           /\ SetWeather(u.weather)
    /\ loadsInFlight' = loadsInFlight + 1
    /\ loadRequests' = loadRequests + 1
    /\ enteredAs' = ""
    /\ leftFrom' = Presentation
    /\ UNCHANGED guideReducers

\* The user leaves the detail page for another page.
LeaveCountry ==
    /\ view = "detail"
    /\ LET u == UnmountCountryPage(Store)
       IN  /\ view' = "none"
           /\ slug' = <<>>
           /\ SetStore(u.store)
           /\ SetWeather(u.weather)
    /\ enteredAs' = ""
    /\ leftFrom' = Presentation
    /\ UNCHANGED <<guideReducers, loadsInFlight, loadRequests>>

\* A fetchCountries request is answered with data.
FetchCountriesFulfilled(data) ==
    /\ loadsInFlight > 0
    /\ loadsInFlight' = loadsInFlight - 1
    /\ LET S == fetchCountriesFulfilled(Store, data)
       IN  IF view = "detail"
           THEN LET u == UpdateCountryPage(Store, S, Weather, slug, slug)
                IN  SetStore(u.store) /\ SetWeather(u.weather)
           ELSE SetStore(S) /\ SetWeather(Weather)
    /\ UNCHANGED <<guideReducers, view, slug, loadRequests, enteredAs, leftFrom>>

\* A fetchCountries request fails.
FetchCountriesRejected ==
    /\ loadsInFlight > 0
    /\ loadsInFlight' = loadsInFlight - 1
    /\ LET S == fetchCountriesRejected(Store, LoadErrorMessage)
       IN  IF view = "detail"
           THEN LET u == UpdateCountryPage(Store, S, Weather, slug, slug)
                IN  SetStore(u.store) /\ SetWeather(u.weather)
           ELSE SetStore(S) /\ SetWeather(Weather)
    /\ UNCHANGED <<guideReducers, view, slug, loadRequests, enteredAs, leftFrom>>

\* fetchWeatherData after its await, response.ok: setWeatherData(data), finally.
WeatherResolved(W, capital) ==
    [W EXCEPT !.data = [capital |-> capital], !.loading = FALSE,
              !.inFlight[capital] = @ - 1]

\* Mutant: the catch block sets the message and asks again for the capital.
WeatherFailedRetrying(W, capital, message) ==
    [W EXCEPT !.error = [message |-> message], !.loading = TRUE]

\* fetchWeatherData after its await, failure: catch sets the message, finally.
WeatherFailed(W, capital, message) ==
    [W EXCEPT !.error = [message |-> message], !.loading = FALSE,
              !.inFlight[capital] = @ - 1]

\* The weather API answers a request of the mounted page for capital with data.
WeatherFetchFulfilled(capital) ==
    /\ view = "detail"
    /\ weatherInFlight[capital] > 0
    /\ SetWeather(WeatherResolved(Weather, capital))
    /\ UNCHANGED <<guideReducers, view, slug, countries, countriesGen, selectedCountry,
                   loading, error, loadsInFlight, loadRequests, enteredAs, leftFrom>>

\* Mutant: the catch block also dispatches clearSelectedCountry.
WeatherFetchRejectedClearing(capital, message) ==
    /\ view = "detail"
    /\ weatherInFlight[capital] > 0
    /\ SetWeather(WeatherFailed(Weather, capital, message))
    /\ SetStore(clearSelectedCountry(Store))
    /\ UNCHANGED <<guideReducers, view, slug, loadsInFlight, loadRequests,
                   enteredAs, leftFrom>>

\* A request of the mounted page for capital ends with a non-ok response or a
\* transport error.
WeatherFetchRejected(capital, message) ==
    /\ view = "detail"
    /\ weatherInFlight[capital] > 0
    /\ SetWeather(WeatherFailed(Weather, capital, message))
    /\ UNCHANGED <<guideReducers, view, slug, countries, countriesGen, selectedCountry,
                   loading, error, loadsInFlight, loadRequests, enteredAs, leftFrom>>

Next ==
    \/ OpenCountries
    \/ LeaveCountries
    \/ \E i \in 1..4 : HandleCountryClick(i)
    \/ \E s \in Slugs : OpenCountry(s)
    \/ \E s \in Slugs : ChangeSlug(s)
    \/ HandleBack
    \/ LeaveCountry
    \/ \E data \in Datasets : FetchCountriesFulfilled(data)
    \/ FetchCountriesRejected
    \/ \E capital \in Capitals : WeatherFetchFulfilled(capital)
    \/ \E capital \in Capitals, message \in WeatherErrorMessages :
          WeatherFetchRejected(capital, message)

Spec == Init /\ [][Next]_vars

\* Sessions that open the list and then detail pages by typed URL: the same
\* actions, with every path segment of UrlSlugs as input.
NextUrl ==
    \/ OpenCountries
    \/ LeaveCountries
    \/ \E s \in UrlSlugs : OpenCountry(s)
    \/ \E data \in Datasets : FetchCountriesFulfilled(data)

SpecUrl == Init /\ [][NextUrl]_vars

\* The same sessions when every request gets its answer: an outstanding
\* directory load completes or fails, an outstanding weather request of the
\* mounted page completes or fails. The user's steps carry no fairness.
FairSpec ==
    /\ Spec
    /\ WF_vars((\E data \in Datasets : FetchCountriesFulfilled(data))
                  \/ FetchCountriesRejected)
    /\ WF_vars(\E capital \in Capitals :
                  \/ WeatherFetchFulfilled(capital)
                  \/ \E message \in WeatherErrorMessages :
                        WeatherFetchRejected(capital, message))

-----------------------------------------------------------------------------
(* Properties *)

\* The normalized slug: every "-" replaced by a space, percent-decoded,
\* lower-cased.
Normalized(s) == ToLowerCase(CountryName(s))

\* Record r matches the normalized slug n: its common or official name,
\* lower-cased, equals n.
Matches(r, n) ==
    ToLowerCase(r.common) = n \/ ToLowerCase(r.official) = n

\* Selection sel is what resolving slug s against directory cs gives: a
\* record of cs that matches s, or nothing when no record of cs matches.
IsResolution(sel, cs, s) ==
    \E n \in {Normalized(s)} :
        IF \E i \in DOMAIN cs : Matches(cs[i], n)
        THEN /\ sel # null
             /\ Matches(sel, n)
             /\ \E i \in DOMAIN cs : cs[i] = sel
        ELSE sel = null

\* Weather state Idle: no data, not loading, no error.
WeatherIdle == weatherData = null /\ ~weatherLoading /\ weatherError = null

\* C1: whenever a weather snapshot is present, it is the result of a fetch
\* for the primary capital of the currently selected record.
C1_SnapshotOfCurrentSelection ==
    weatherData # null =>
        /\ selectedCountry # null
        /\ weatherData.capital = PrimaryCapital(selectedCountry)

\* C2: when the selection went from a record with capital X to one with
\* capital Y while X's fetch was pending, then once every fetch has completed
\* successfully the weather state holds the result for the capital of the
\* record now selected, whatever the order of the responses.
C2_LateResultDiscarded ==
    ( /\ view = "detail"
      /\ PrimaryCapital(selectedCountry) # ""
      /\ InFlightCount(weatherInFlight) = 0
      /\ weatherError = null
      /\ weatherData # null )
    => weatherData.capital = PrimaryCapital(selectedCountry)

\* C3: whenever the detail page is not mounted, the selection is empty,
\* whatever it was before the unmount.
C3_UnmountClearsSelection ==
    view # "detail" => selectedCountry = null

C3_Witness ==
    view # "detail" /\ leftFrom = "Found" /\ selectedCountry = null

\* C4: no step starts a weather fetch when the selection it leaves is empty or
\* has no non-empty primary capital, and such a step leaves an Idle weather
\* state Idle.
C4_NoFetchWithoutCapital ==
    [][ (view' = "detail" /\ PrimaryCapital(selectedCountry') = "")
        => /\ \A c \in Capitals : weatherInFlight'[c] <= weatherInFlight[c]
           /\ (WeatherIdle => WeatherIdle') ]_vars

C4_Witness ==
    /\ view = "detail"
    /\ selectedCountry # null
    /\ PrimaryCapital(selectedCountry) = ""
    /\ WeatherIdle

\* C5: a weather fetch that ends in failure changes neither the selection nor
\* the directory state (contents, loading flag, last error).
C5_WeatherFailureKeepsStore ==
    [][ (\E c \in Capitals, m \in WeatherErrorMessages : WeatherFetchRejected(c, m))
        => UNCHANGED <<selectedCountry, countries, countriesGen, loading, error>> ]_vars

C5_Witness ==
    /\ view = "detail"
    /\ weatherError # null
    /\ selectedCountry # null
    /\ InFlightCount(weatherInFlight) = 0

\* C6: when the last outstanding directory load fails while the detail page
\* shows Loading, the page then shows the blocking error state and the failure
\* message is the directory's last error.
C6_LoadFailureShown ==
    [][ (FetchCountriesRejected /\ view = "detail" /\ Presentation = "Loading"
            /\ loadsInFlight' = 0)
        => (Presentation' = "Error" /\ error' = [message |-> LoadErrorMessage]) ]_vars

\* C7: when the directory becomes non-empty while the detail page is mounted,
\* the selection becomes the resolution of the slug against the new directory.
C7_ResolvedAfterLoad ==
    [][ (view = "detail" /\ view' = "detail" /\ Len(countries) = 0 /\ Len(countries') > 0)
        => IsResolution(selectedCountry', countries', slug') ]_vars

C7_Witness ==
    view = "detail" /\ enteredAs = "Loading" /\ selectedCountry # null

\* C8: when the slug changes while the directory is populated, the selection
\* becomes the resolution of the new slug against the directory.
C8_ResolvedAfterSlugChange ==
    [][ (view = "detail" /\ view' = "detail" /\ slug' # slug /\ Len(countries) > 0)
        => IsResolution(selectedCountry', countries', slug') ]_vars

\* Entered with a slug no record matched, the directory not replaced since,
\* and a record is selected now: the slug changed to one that matches.
C8_Witness ==
    /\ view = "detail"
    /\ enteredAs = "NotFound"
    /\ countriesGen = 1
    /\ selectedCountry # null

\* C9: the bulk directory load is requested exactly once in a session: the
\* list page has requested it, and no mount, unmount or navigation requests
\* it a second time.
C9_LoadRequestedOnce ==
    /\ view = "list" => loadRequests >= 1
    /\ loadRequests <= 1

\* C10: for every record of the directory, the slug the list page builds from
\* its common name resolves on the detail page to a record whose common or
\* official name equals that common name case-insensitively.
C10_ClickSlugResolves ==
    \A i \in DOMAIN countries :
        LET found == FindCountry(countries, CountryName(ClickSlug(countries[i].common)))
        IN  /\ found # null
            /\ \/ ToLowerCase(found.common) = ToLowerCase(countries[i].common)
               \/ ToLowerCase(found.official) = ToLowerCase(countries[i].common)

\* String n holds neither "-" nor "%".
Plain(n) == \A i \in DOMAIN n : n[i] \notin {"-", "%"}

\* C11: resolving a slug gives the same result as resolving its normalized
\* form, for every slug and directory.
C11_NormalizeIdempotent ==
    view = "detail" =>
        ResolveSlug(countries, slug) = ResolveSlug(countries, Normalized(slug))

\* C11 as amended: resolving a slug gives the same result as resolving its
\* normalized form whenever the normalized form holds neither "-" nor "%".
C11_NormalizeIdempotentPlain ==
    (view = "detail" /\ Plain(Normalized(slug))) =>
        ResolveSlug(countries, slug) = ResolveSlug(countries, Normalized(slug))

\* A slug that differs from its plain normalized form and resolves to a record.
C11_Witness ==
    /\ view = "detail"
    /\ Plain(Normalized(slug))
    /\ Normalized(slug) # slug
    /\ selectedCountry # null
    /\ ResolveSlug(countries, Normalized(slug)) = selectedCountry

\* Positions of the records of cs of which a name, lower-cased, equals n.
MatchesAt(cs, n) == {i \in DOMAIN cs : Matches(cs[i], n)}

\* C12: against a populated directory the selection is a record exactly when
\* some record's common or official name, lower-cased, equals the normalized
\* slug; it is then the first such record in directory order; with no such
\* record the selection is empty and nothing is thrown.
C12_FirstExactMatch ==
    (view = "detail" /\ Len(countries) > 0) =>
        \E n \in {Normalized(slug)} :
            /\ ResolveSlug(countries, slug) # URIError
            /\ IF MatchesAt(countries, n) = {}
               THEN selectedCountry = null
               ELSE \E i \in MatchesAt(countries, n) :
                        /\ selectedCountry = countries[i]
                        /\ \A j \in MatchesAt(countries, n) : i <= j

\* Two records match the slug and the first of them is selected.
C12_Witness ==
    /\ view = "detail"
    /\ Len(countries) > 0
    /\ selectedCountry = countries[1]
    /\ \E j \in DOMAIN countries :
          j > 1 /\ Matches(countries[j], Normalized(slug))

C14_EmptyDirectoryNothingFound ==
    Len(countries) = 0 =>
        /\ selectedCountry = null
        /\ view = "detail" => ResolveSlug(countries, slug) = null

\* A detail page over the empty directory whose slug names a record the
\* service delivers, and nothing is selected.
C14_Witness ==
    /\ view = "detail"
    /\ Len(countries) = 0
    /\ selectedCountry = null
    /\ \E data \in Datasets :
          MatchesAt(data, Normalized(slug)) # {}

\* C15: a weather fetch that ends with a non-ok response or a transport error
\* leaves a non-empty failure message and the loading flag false and issues
\* no request; a request is only ever issued by a step that changes the
\* selection.
C15_FailureIsFinal ==
    [][ /\ (\E c \in Capitals, m \in WeatherErrorMessages : WeatherFetchRejected(c, m))
            => /\ weatherError' # null
               /\ weatherError'.message # ""
               /\ ~weatherLoading'
               /\ \A c \in Capitals : weatherInFlight'[c] <= weatherInFlight[c]
        /\ (\E c \in Capitals : weatherInFlight'[c] > weatherInFlight[c])
            => selectedCountry' # selectedCountry ]_vars

\* The only request for the selected record's capital has failed: the message
\* is set, the loading flag is false and no request is outstanding.
C15_Witness ==
    /\ view = "detail"
    /\ selectedCountry # null
    /\ PrimaryCapital(selectedCountry) # ""
    /\ weatherError # null
    /\ weatherData = null
    /\ ~weatherLoading
    /\ InFlightCount(weatherInFlight) = 0

\* Selections a and b hold the same record of the directory.
SameRecord(a, b) ==
    /\ a # null
    /\ b # null
    /\ a.common = b.common
    /\ a.official = b.official
    /\ a.capital = b.capital

\* C16: while the mounted page keeps the same selected record, no further
\* weather request is issued, also when a reload replaces the directory.
C16_OneFetchPerCapital ==
    [][ (/\ view = "detail"
         /\ view' = "detail"
         /\ SameRecord(selectedCountry, selectedCountry'))
        => \A c \in Capitals : weatherInFlight'[c] <= weatherInFlight[c] ]_vars

\* What directory cs holds: the records' fields, in order, without the
\* identity of the objects.
Contents(cs) ==
    [i \in DOMAIN cs |->
        [common |-> cs[i].common, official |-> cs[i].official,
         capital |-> cs[i].capital]]

\* C17: once the directory is populated, no step changes its contents.
C17_DirectoryImmutable ==
    [][ Len(countries) > 0 => Contents(countries') = Contents(countries) ]_vars

\* C18: the weather data and the weather failure message are never both set.
C18_DataAndErrorExclusive ==
    ~(weatherData # null /\ weatherError # null)

\* C19: the loading flag of the mounted page is true whenever one of its
\* weather requests is in flight.
C19_LoadingWhileInFlight ==
    (view = "detail" /\ InFlightCount(weatherInFlight) > 0) => weatherLoading

\* The mounted page gets another slug or is left by the browser: the steps in
\* which only setSelectedCountry and clearSelectedCountry act on the store.
SelectionStep ==
    \/ view = "detail" /\ view' = "detail" /\ slug' # slug
    \/ view = "detail" /\ view' = "none"

\* C20: a step of setSelectedCountry and clearSelectedCountry leaves the
\* directory contents, the loading flag and the last error as they were.
C20_OnlySelectionChanges ==
    [][ SelectionStep
        => /\ countries' = countries
           /\ loading' = loading
           /\ error' = error ]_vars

\* C20 as amended: a step of setSelectedCountry and clearSelectedCountry leaves
\* the directory contents and the loading flag as they were and resets the
\* last error to null.
C20_SelectionAndErrorChange ==
    [][ SelectionStep
        => /\ countries' = countries
           /\ countriesGen' = countriesGen
           /\ loading' = loading
           /\ error' = null ]_vars

\* Every load of the session has failed, which left its message as last
\* error, and a later selection step has reset it.
C20_Witness ==
    /\ guideReducers
    /\ loadRequests > 0
    /\ loadsInFlight = 0
    /\ countriesGen = 0
    /\ error = null
    /\ leftFrom # ""

\* C21: a detail page entered first in the session, over the empty directory
\* and with no load requested, eventually shows the record, "not found" or the
\* directory error, unless the user leaves the page before.
C21_DetailFirstLeavesLoading ==
    (view = "detail" /\ Len(countries) = 0 /\ loadRequests = 0)
        ~> (view # "detail" \/ Presentation \in {"Found", "NotFound", "Error"})

====
